---------------------------- MODULE Spec2Model ----------------------------
(***************************************************************************)
(* A model of gdown (igolaizola/gdown): the streaming downloader with its  *)
(* confirmation-page loop and resume, the content cache, the URL resolver  *)
(* and the folder tree resolver.                                           *)
(*                                                                         *)
(* Representation.  A path is a sequence of components (filepath.Join is   *)
(* concatenation); the empty sequence is the empty string.  A file is a    *)
(* record with its kind and its bytes.  A URL string is kept as a string;  *)
(* the string functions applied to URLs are tables over the URLs used.     *)
(***************************************************************************)
EXTENDS Naturals, Sequences, FiniteSets, TLC

VARIABLES
    fs,      \* the file system: path -> file
    fs0,     \* the file system before the calls began (history)
    dl,      \* per caller: the state of its Download call
    cd,      \* per caller: the state of its CachedDownload call
    pu,      \* the ParseUrl call: its input and its results
    tr,      \* the folder tree resolution: provider pages, stack, result
    net,     \* the server: the statuses of its HTML pages, its
             \* Content-Disposition headers
    tw,      \* the ThrottledWriter: its fields and the clock
    df,      \* the DownloadFolder / ListFolder call
    ex       \* the ExtractAll call

vars == <<fs, fs0, dl, cd, pu, tr, net, tw, df, ex>>

----------------------------------------------------------------------------
(* Bounds *)

\* Number of bytes of the resource the server holds.
ResLen == 2

\* Longest identifier part of a URL path, in path segments.
MaxIdSegs == 2

\* Most parameters in a URL's query.
MaxQuery == 2

\* Small folders hold 0..MaxSmall files; large ones about MAX_NUMBER_FILES.
MaxSmall == 1

----------------------------------------------------------------------------
(* Files and paths *)

Procs == {"p1", "p2"}

Content == [i \in 1..ResLen |-> i]
Stale == <<0>>

NoFile == [kind |-> "none", data |-> <<>>]
DirEntry == [kind |-> "dir", data |-> <<>>]
FileOf(bytes) == [kind |-> "file", data |-> bytes]

NoPath == <<>>
DestPath == <<"dest">>
DirPath == <<"dir">>
CacheRoot == <<"cache">>
TmpNames == {"dl1", "dl2"}

Parent(path) == SubSeq(path, 1, Len(path) - 1)
Join(dir, name) == dir \o <<name>>

(* filepath.Join(prev, name) of a clean path and a name without separator:
   empty elements are dropped, the result is cleaned ("." and an inner
   ".." are resolved, a leading ".." stays), and joining nothing but empty
   strings gives "". *)
JoinClean(prev, name) ==
    IF prev = <<>> /\ name = "" THEN <<>>
    ELSE LET base == IF prev = <<".">> THEN <<>> ELSE prev
             r == CASE name \in {"", "."} -> base
                    [] name = ".." ->
                         IF base # <<>> /\ base[Len(base)] # ".."
                         THEN SubSeq(base, 1, Len(base) - 1)
                         ELSE Append(base, "..")
                    [] OTHER -> Append(base, name)
         IN IF r = <<>> THEN <<".">> ELSE r

\* filepath.Join(base, rel) for a relative path rel.
RECURSIVE JoinPath(_, _)
JoinPath(base, rel) ==
    IF rel = <<>> THEN base
    ELSE JoinPath(JoinClean(base, Head(rel)), Tail(rel))

IsDir(f, path) == path \in DOMAIN f /\ f[path].kind = "dir"

\* fileExists: the path exists and is not a directory.
fileExists(f, path) == path \in DOMAIN f /\ f[path].kind = "file"

\* A file can be created at a path of an existing directory (the working
\* directory holds the one-component paths) that is not itself a directory.
CanOpen(f, path) ==
    /\ path \in DOMAIN f
    /\ f[path].kind # "dir"
    /\ (Len(path) = 1 \/ IsDir(f, Parent(path)))

----------------------------------------------------------------------------
(* URLs *)

UrlUc == "https://drive.google.com/uc?id=X"
UrlExport == "https://docs.google.com/uc?export=download&id=X"
UrlConfirm == "https://docs.google.com/uc?export=download&id=X&confirm=t"
Urls == {UrlUc, UrlExport, UrlConfirm}

\* The anchors a confirmation page may carry, as written in the HTML.
NoHref == "none"
HrefExport == "/uc?export=download&amp;id=X"
HrefConfirm == "/uc?export=download&amp;id=X&amp;confirm=t"
Hrefs == {HrefExport, HrefConfirm}

\* path.Base(u.Path) of the URLs used.
UrlBase(u) == "uc"

\* getUrlFromGDriveConfirmation: "https://docs.google.com" + href with
\* "&amp;" replaced by "&"; an error when no anchor matches.
getUrlFromGDriveConfirmation(href) ==
    CASE href = HrefExport -> [err |-> "", url |-> UrlExport]
      [] href = HrefConfirm -> [err |-> "", url |-> UrlConfirm]
      [] OTHER -> [err |-> "ErrFileURLRetrieval", url |-> ""]

----------------------------------------------------------------------------
(* The server *)

\* Content-Disposition headers and the file name each yields.
CDNone == ""
CDBasic == "attachment; filename=\"a.bin\""
CDs == {CDNone, CDBasic}

getFilenameFromResponse(resp) ==
    IF resp.cd = CDBasic THEN "a.bin" ELSE "downloaded_file"

NoResp == [html |-> FALSE, status |-> 0, href |-> NoHref, cd |-> CDNone,
           body |-> <<>>]

\* What a server may answer to a request carrying Range: bytes=range-
\* (range = 0: no Range header).  HTML pages with or without an anchor and
\* with any status; the resource in full (a server may ignore Range), the
\* requested tail with 206, 416 for a range at or past the end, 404.
HtmlResponses ==
    { [html |-> TRUE, status |-> s, href |-> h, cd |-> CDNone, body |-> <<>>] :
        s \in net.htmlStatus, h \in Hrefs \cup {NoHref} }

BinaryResponses(range) ==
    { [html |-> FALSE, status |-> 200, href |-> NoHref, cd |-> c,
       body |-> Content] : c \in net.cds }
    \cup { [html |-> FALSE, status |-> 206, href |-> NoHref, cd |-> c,
            body |-> SubSeq(Content, range + 1, ResLen)] :
              c \in IF range > 0 /\ range < ResLen THEN net.cds ELSE {} }
    \cup { [html |-> FALSE, status |-> 416, href |-> NoHref, cd |-> c,
            body |-> <<>>] :
              c \in IF range > 0 /\ range >= ResLen THEN {CDNone} ELSE {} }
    \cup { [html |-> FALSE, status |-> 404, href |-> NoHref, cd |-> CDNone,
            body |-> <<>>] }

Responses(range) == HtmlResponses \cup BinaryResponses(range)

\* A server of any answer, and one whose HTML pages all have status 200 and
\* whose responses name no file: Download reads the status only of a
\* response that is not HTML, and the file name only when its output is a
\* directory.
AnyServer == [htmlStatus |-> {200, 404}, cds |-> CDs]
PlainServer == [htmlStatus |-> {200}, cds |-> {CDNone}]

----------------------------------------------------------------------------
(* Download *)

DlIdle == [pc |-> "idle", resume |-> FALSE, origUrl |-> "", urlStr |-> "",
           output |-> NoPath, startSize |-> 0, resp |-> NoResp,
           body |-> <<>>, err |-> "", status |-> 0, ret |-> NoPath,
           opened |-> FALSE, sizeAtOpen |-> 0, requested |-> FALSE]

\* Download(urlStr, output, opts): the state on entry to the loop.
DlEntry(url, out, resume) ==
    [DlIdle EXCEPT !.pc = "loop", !.resume = resume, !.origUrl = url,
                   !.urlStr = url, !.output = out]

\* The size the Range header starts at: the size of output when resuming
\* and output is an existing file, else 0 (no header).
StartSize(f, c) ==
    IF c.resume /\ fileExists(f, c.output) THEN Len(f[c.output].data) ELSE 0

\* Top of the loop: stat, build the request, send it.  The transport fails
\* or the server answers.
DlRequest(p) ==
    /\ dl[p].pc = "loop"
    /\ LET size == StartSize(fs, dl[p])
       IN \/ dl' = [dl EXCEPT ![p].pc = "done", ![p].err = "net",
                               ![p].resp = NoResp,
                               ![p].startSize = size,
                               ![p].requested = TRUE]
          \/ \E r \in Responses(size) :
                dl' = [dl EXCEPT ![p].pc = "resp", ![p].resp = r,
                                 ![p].startSize = size,
                                 ![p].requested = TRUE]
    /\ UNCHANGED <<net, ex, tw, df, fs, fs0, cd, pu, tr>>

\* The response is HTML: read it as a confirmation page.
DlConfirm(p) ==
    /\ dl[p].pc = "resp"
    /\ dl[p].resp.html
    /\ LET got == getUrlFromGDriveConfirmation(dl[p].resp.href)
       IN IF got.err # ""
          THEN dl' = [dl EXCEPT ![p].pc = "done", ![p].err = "confirm"]
          ELSE IF dl[p].origUrl = got.url
               THEN dl' = [dl EXCEPT ![p].pc = "done", ![p].urlStr = got.url,
                                     ![p].ret = dl[p].output]
               ELSE dl' = [dl EXCEPT ![p].pc = "loop", ![p].urlStr = got.url,
                                     ![p].resp = NoResp]
    /\ UNCHANGED <<net, ex, tw, df, fs, fs0, cd, pu, tr>>

\* A Download that does not report an error status: it returns the output
\* path with no error.
DlHttpError_Ignored(p) ==
    /\ dl[p].pc = "resp"
    /\ ~dl[p].resp.html
    /\ dl[p].resp.status >= 400
    /\ dl' = [dl EXCEPT ![p].pc = "done", ![p].ret = dl[p].output]
    /\ UNCHANGED <<net, ex, tw, df, fs, fs0, cd, pu, tr>>

\* The response is not HTML and its status is an error.
DlHttpError(p) ==
    /\ dl[p].pc = "resp"
    /\ ~dl[p].resp.html
    /\ dl[p].resp.status >= 400
    /\ dl' = [dl EXCEPT ![p].pc = "done", ![p].err = "http",
                        ![p].status = dl[p].resp.status]
    /\ UNCHANGED <<net, ex, tw, df, fs, fs0, cd, pu, tr>>

\* The path written: the URL's base name for an empty output, a name from
\* the response inside an output that is a directory.
ResolveOutput(f, c) ==
    LET out1 == IF c.output = NoPath THEN <<UrlBase(c.urlStr)>> ELSE c.output
    IN IF IsDir(f, out1)
       THEN JoinClean(out1, getFilenameFromResponse(c.resp))
       ELSE out1

\* os.OpenFile(O_CREATE|O_WRONLY|O_APPEND) keeps the bytes, os.Create
\* truncates.
OpenedFile(f, path, resume) ==
    IF resume /\ f[path].kind = "file" THEN f[path] ELSE FileOf(<<>>)

\* The response is a body to store: resolve the output and open it.
DlOpen(p) ==
    /\ dl[p].pc = "resp"
    /\ ~dl[p].resp.html
    /\ dl[p].resp.status < 400
    /\ LET out == ResolveOutput(fs, dl[p])
       IN IF CanOpen(fs, out)
          THEN /\ fs' = [fs EXCEPT ![out] = OpenedFile(fs, out, dl[p].resume)]
               /\ dl' = [dl EXCEPT ![p].pc = "copy", ![p].output = out,
                                   ![p].body = dl[p].resp.body,
                                   ![p].opened = TRUE,
                                   ![p].sizeAtOpen =
                                       Len(OpenedFile(fs, out, dl[p].resume).data)]
          ELSE /\ dl' = [dl EXCEPT ![p].pc = "done", ![p].output = out,
                                   ![p].err = "open"]
               /\ fs' = fs
    /\ UNCHANGED <<net, ex, tw, df, fs0, cd, pu, tr>>

\* A Download that removes the partial file when the copy fails.
DlCopy_RemovesPartial(p) ==
    /\ dl[p].pc = "copy"
    /\ LET out == dl[p].output
       IN \/ /\ dl[p].body # <<>>
             /\ \E k \in 1..Len(dl[p].body) :
                  /\ fs' = [fs EXCEPT ![out].data =
                                @ \o SubSeq(dl[p].body, 1, k)]
                  /\ dl' = [dl EXCEPT ![p].body =
                                SubSeq(dl[p].body, k + 1, Len(dl[p].body))]
          \/ /\ dl[p].body # <<>>
             /\ dl' = [dl EXCEPT ![p].pc = "done", ![p].err = "copy"]
             /\ fs' = [fs EXCEPT ![out] = NoFile]
          \/ /\ dl[p].body = <<>>
             /\ dl' = [dl EXCEPT ![p].pc = "done", ![p].ret = out]
             /\ fs' = fs
    /\ UNCHANGED <<net, ex, tw, df, fs0, cd, pu, tr>>

\* io.CopyBuffer: each round appends what it read; a read fails, or the
\* body ends and Download returns the path.
DlCopy(p) ==
    /\ dl[p].pc = "copy"
    /\ LET out == dl[p].output
       IN \/ /\ dl[p].body # <<>>
             /\ \E k \in 1..Len(dl[p].body) :
                  /\ fs' = [fs EXCEPT ![out].data =
                                @ \o SubSeq(dl[p].body, 1, k)]
                  /\ dl' = [dl EXCEPT ![p].body =
                                SubSeq(dl[p].body, k + 1, Len(dl[p].body))]
          \/ /\ dl[p].body # <<>>
             /\ dl' = [dl EXCEPT ![p].pc = "done", ![p].err = "copy"]
             /\ fs' = fs
          \/ /\ dl[p].body = <<>>
             /\ dl' = [dl EXCEPT ![p].pc = "done", ![p].ret = out]
             /\ fs' = fs
    /\ UNCHANGED <<net, ex, tw, df, fs0, cd, pu, tr>>

DownloadStep(p) ==
    \/ DlRequest(p)
    \/ DlConfirm(p)
    \/ DlHttpError(p)
    \/ DlOpen(p)
    \/ DlCopy(p)

----------------------------------------------------------------------------
(* The file system the calls start from *)

UcPath == <<"uc">>
DirFiles == {Join(DirPath, "a.bin"), Join(DirPath, "downloaded_file")}
UserFiles == {DestPath, UcPath} \cup DirFiles

\* CachedDownload's outputPath for an empty argument: the cache root joined
\* with the URL, its "/", ":", "=", "?" replaced.
Sanitized(u) ==
    CASE u = UrlUc ->
           "https-COLON--SLASH--SLASH-drive.google.com-SLASH-uc-QUESTION-id-EQUAL-X"
      [] u = UrlExport ->
           "https-COLON--SLASH--SLASH-docs.google.com-SLASH-uc-QUESTION-export-EQUAL-download&id-EQUAL-X"
      [] OTHER ->
           "https-COLON--SLASH--SLASH-docs.google.com-SLASH-uc-QUESTION-export-EQUAL-download&id-EQUAL-X&confirm-EQUAL-t"

CachePath(u) == Join(CacheRoot, Sanitized(u))
TmpDir(n) == Join(CacheRoot, n)
TmpFile(n) == Join(TmpDir(n), "dl")

\* The file a postprocess callback writes beside the cached file.
PostprocessPath == Join(CacheRoot, "extracted")

AllPaths ==
    UserFiles \cup {DirPath, CacheRoot}
    \cup {CachePath(u) : u \in Urls}
    \cup {TmpDir(n) : n \in TmpNames} \cup {TmpFile(n) : n \in TmpNames}
    \cup {PostprocessPath}

\* What a destination may hold before a call: nothing, the first K bytes
\* of the resource (0 <= K <= ResLen), or bytes of something else.
Prefixes == {SubSeq(Content, 1, k) : k \in 0..ResLen}
InitFiles == {NoFile} \cup {FileOf(b) : b \in Prefixes \cup {Stale}}

BaseFs(pre, cached) ==
    [path \in AllPaths |->
        IF path \in {DirPath, CacheRoot} THEN DirEntry
        ELSE IF path \in UserFiles THEN pre
        ELSE IF path = CachePath(UrlExport) THEN cached
        ELSE NoFile]

NoHash == <<>>
CdIdle == [pc |-> "idle", hash |-> NoHash, postprocess |-> "nil",
           resume |-> FALSE, outputPath |-> NoPath, tmp |-> "",
           found |-> NoFile, seen |-> NoFile, downloads |-> 0,
           requested |-> FALSE, after |-> {},
           ret |-> NoPath, err |-> ""]
PuIdle == [pc |-> "idle"]
TwIdle == [pc |-> "idle"]
ExIdle == [pc |-> "idle"]
DfIdle == [pc |-> "idle"]
TrIdle == [pc |-> "idle"]

----------------------------------------------------------------------------
(* One Download call *)

InitDownload ==
    /\ \E pre \in InitFiles : fs = BaseFs(pre, NoFile)
    /\ fs0 = fs
    /\ \E url \in {UrlUc, UrlExport}, out \in {NoPath, DestPath, DirPath},
          resume \in BOOLEAN :
          dl = [p \in Procs |-> IF p = "p1" THEN DlEntry(url, out, resume)
                                ELSE DlIdle]
    /\ cd = [p \in Procs |-> CdIdle]
    /\ pu = PuIdle
    /\ tr = TrIdle
    /\ net = AnyServer
    /\ ex = ExIdle
    /\ tw = TwIdle
    /\ df = DfIdle

NextDownload == \E p \in Procs : DownloadStep(p)

SpecDownload == InitDownload /\ [][NextDownload]_vars

\* The server answers every request and the client processes every answer.
FairSpecDownload == SpecDownload /\ WF_vars(NextDownload)

DlDone(p) == dl[p].pc = "done"

(* C1: Download always terminates, whatever the server answers: the
   confirmation-page loop performs finitely many requests and returns. *)
C1_DownloadTerminates == <>DlDone("p1")


HeldPrefix(f, path) == f[path] \in {FileOf(b) : b \in Prefixes}

(* C2: resume invariant.  A Download with Resume enabled onto a destination
   holding the first K bytes of the resource (0 <= K <= ResLen) that stores
   a response and returns without error leaves the destination holding
   exactly the resource, as a fresh Download without Resume does. *)
C2_ResumeInvariant ==
    \A p \in Procs :
        ( /\ DlDone(p) /\ dl[p].err = "" /\ dl[p].opened
          /\ dl[p].resume
          /\ dl[p].output = DestPath
          /\ HeldPrefix(fs0, DestPath) )
        => fs[DestPath] = FileOf(Content)

\* Download failed with the transport error carrying the response's status,
\* is over, and no file was created, truncated or appended to.
FailedWithStatus(p) ==
    /\ DlDone(p)
    /\ dl[p].err = "http"
    /\ dl[p].status = dl[p].resp.status
    /\ ~dl[p].opened
    /\ fs = fs0

(* C9 as claimed: whenever a request of Download is answered with a status
   >= 400, Download fails with the transport error carrying that status,
   issues no further request and leaves the destination untouched. *)
C9_ErrorStatusFails ==
    \A p \in Procs :
        (dl[p].requested /\ dl[p].pc # "resp" /\ dl[p].resp.status >= 400)
        => FailedWithStatus(p)

(* C9 amended: whenever a request of Download is answered with a status
   >= 400 and a content type that is not text/html, Download fails with the
   transport error carrying that status, issues no further request (the
   call is over) and neither creates, truncates nor appends to the
   destination. *)
C9_NonHtmlErrorStatusFails ==
    \A p \in Procs :
        ( /\ dl[p].requested /\ dl[p].pc # "resp"
          /\ dl[p].resp.status >= 400 /\ ~dl[p].resp.html )
        => FailedWithStatus(p)

\* A resumed download of a complete file is answered 416 and fails.
C9_Witness ==
    /\ DlDone("p1") /\ dl["p1"].err = "http" /\ dl["p1"].status = 416
    /\ fs0[DestPath] = FileOf(Content)
    /\ fs[DestPath] = FileOf(Content)

\* What the opened file held when Download began to write: with Resume
\* the bytes it had, else nothing.
KeptAtOpen(p) ==
    IF dl[p].resume /\ fs0[dl[p].output].kind = "file"
    THEN fs0[dl[p].output].data ELSE <<>>

\* The bytes of the response's body copied so far.
Received(p) ==
    SubSeq(dl[p].resp.body, 1, Len(dl[p].resp.body) - Len(dl[p].body))

(* C16: Download deletes nothing on failure.  After a failing Download
   every file of before the call still exists; the destination, once
   opened, exists and holds what it held at the open followed by every byte
   written before the failure; and a failure before the destination is
   opened (request error, confirmation-page error, HTTP error status, open
   error) leaves the file system as it was before the call. *)
C16_FailureKeepsDestination ==
    \A p \in Procs :
        (DlDone(p) /\ dl[p].err # "")
        => /\ \A path \in DOMAIN fs :
                 fs0[path].kind = "file" => fs[path].kind = "file"
           /\ dl[p].opened
                 => fs[dl[p].output] = FileOf(KeptAtOpen(p) \o Received(p))
           /\ ~dl[p].opened => fs = fs0
           /\ dl[p].err \in {"net", "confirm", "http"} => ~dl[p].opened

\* A resumed download onto one byte failed in the copy after one more
\* byte was written: both bytes are there.
C16_Witness ==
    /\ DlDone("p1") /\ dl["p1"].err = "copy"
    /\ dl["p1"].resume /\ dl["p1"].output = DestPath
    /\ fs0[DestPath] = FileOf(<<1>>)
    /\ Len(Received("p1")) = 1
    /\ Len(fs[DestPath].data) = 2

(* C17 as claimed: whenever Download returns without error it has opened
   exactly one file, at the path it returns, and that file has received
   the complete body of the last response; no other file has changed. *)
C17_SuccessWroteOneFile ==
    \A p \in Procs :
        (DlDone(p) /\ dl[p].err = "")
        => /\ dl[p].opened
           /\ dl[p].ret = dl[p].output
           /\ fs[dl[p].ret] = FileOf(KeptAtOpen(p) \o dl[p].resp.body)
           /\ \A path \in DOMAIN fs :
                 path # dl[p].ret => fs[path] = fs0[path]

(* C18 as claimed: the destination is opened in append mode onto K > 0
   existing bytes only if the request of that attempt carried Range:
   bytes=K-, and a Range header is sent exactly when Resume is enabled and
   the file that is written existed with size > 0, the header starting at
   that size. *)
C18_AppendOnlyAfterRange ==
    \A p \in Procs :
        dl[p].opened
        => /\ dl[p].sizeAtOpen > 0 => dl[p].startSize = dl[p].sizeAtOpen
           /\ dl[p].startSize > 0
                 <=> (dl[p].resume /\ dl[p].sizeAtOpen > 0)

----------------------------------------------------------------------------
(* ParseUrl *)

(* A parsed URL is a host (name and port), a path (the sequence of its
   segments: "/file/d/X/view" is <<"file", "d", "X", "view">>) and a query
   (the sequence of its key-value pairs).  A string of segments stands for
   the segments joined by "/": the identifier "" is <<"">>. *)

HostNames == {"drive.google.com", "docs.google.com", "example.com"}
Hosts == [name : HostNames, port : {""}]
         \cup {[name |-> "drive.google.com", port |-> "443"]}

Kinds == {"file", "document", "presentation", "spreadsheets"}
PathHeads ==
    {<<>>} \cup {<<k, "d">> : k \in Kinds \cup {"open"}}
    \cup {<<k, "u", n, "d">> : k \in Kinds, n \in {"0", "X"}}
IdSegs == {"X", ""}
PathMids == UNION {[1..n -> IdSegs] : n \in 0..MaxIdSegs}
PathTails == {<<>>, <<"view">>, <<"edit">>, <<"htmlview">>, <<"uc">>}
UrlPaths == {h \o m \o t : h \in PathHeads, m \in PathMids, t \in PathTails}

\* The raw query: key=value pairs as written, values still escaped.
RawValues == {"", "A", "a%2Fb", "%zz"}
QueryPairs == ({"id"} \X RawValues) \cup {<<"x", "A">>}
Queries == UNION {[1..n -> QueryPairs] : n \in 0..MaxQuery}

BadUrl == [ok |-> FALSE, host |-> [name |-> "", port |-> ""], path |-> <<>>,
           query |-> <<>>]
UrlInputs ==
    {BadUrl} \cup [ok : {TRUE}, host : Hosts, path : UrlPaths, query : Queries]

NoId == <<"">>

\* u.Hostname(): the host without its port.
Hostname(u) == u.host.name

\* An IsGoogleDriveUrl that takes every parseable URL for the provider's.
IsGoogleDriveUrl_AnyHost(u) == u.ok

IsGoogleDriveUrl(u) ==
    /\ u.ok
    /\ Hostname(u) = "drive.google.com" \/ Hostname(u) = "docs.google.com"

\* url.QueryUnescape of the values used: "%zz" is no escape sequence.
UnescapeOk(raw) == raw # "%zz"
QueryUnescape(raw) == IF raw = "a%2Fb" THEN "a/b" ELSE raw

\* parsed.Query(): the pairs, unescaped; a malformed pair is dropped.
RECURSIVE ParseQuery(_)
ParseQuery(raw) ==
    IF raw = <<>> THEN <<>>
    ELSE LET pair == Head(raw)
         IN (IF UnescapeOk(pair[2])
             THEN <<<<pair[1], QueryUnescape(pair[2])>>>>
             ELSE <<>>) \o ParseQuery(Tail(raw))

\* queryParams.Has(key) and queryParams.Get(key): the first value.
QueryHas(q, key) == \E i \in 1..Len(q) : q[i][1] = key
QueryGet(q, key) ==
    LET first == CHOOSE i \in 1..Len(q) :
                    q[i][1] = key /\ \A j \in 1..(i - 1) : q[j][1] # key
    IN q[first][2]

IsDigits(seg) == seg \in {"0", "1", "42"}

\* The path templates, in order: the document kind, whether a user index
\* segment (u/<digits>) follows it, and the final segments it accepts.
EditView == {"edit", "view"}
EditHtmlView == {"edit", "htmlview", "view"}
patterns ==
    << [kind |-> "file", user |-> FALSE, last |-> EditView],
       [kind |-> "file", user |-> TRUE, last |-> EditView],
       [kind |-> "document", user |-> FALSE, last |-> EditHtmlView],
       [kind |-> "document", user |-> TRUE, last |-> EditHtmlView],
       [kind |-> "presentation", user |-> FALSE, last |-> EditHtmlView],
       [kind |-> "presentation", user |-> TRUE, last |-> EditHtmlView],
       [kind |-> "spreadsheets", user |-> FALSE, last |-> EditHtmlView],
       [kind |-> "spreadsheets", user |-> TRUE, last |-> EditHtmlView] >>

\* ^/<kind>/d/(.*?)/(<last>)$ and ^/<kind>/u/[0-9]+/d/(.*?)/(<last>)$:
\* the capture is what lies between the prefix and the final segment.
Matches(pat, path) ==
    LET pre == IF pat.user THEN 4 ELSE 2
    IN /\ Len(path) >= pre + 2
       /\ path[1] = pat.kind
       /\ IF pat.user
          THEN path[2] = "u" /\ IsDigits(path[3]) /\ path[4] = "d"
          ELSE path[2] = "d"
       /\ path[Len(path)] \in pat.last
Capture(pat, path) ==
    SubSeq(path, (IF pat.user THEN 4 ELSE 2) + 1, Len(path) - 1)

\* The loop over the patterns: the capture of the first that matches.
PathId(path) ==
    IF \E i \in 1..Len(patterns) : Matches(patterns[i], path)
    THEN LET first == CHOOSE i \in 1..Len(patterns) :
                        /\ Matches(patterns[i], path)
                        /\ \A j \in 1..(i - 1) : ~Matches(patterns[j], path)
         IN Capture(patterns[first], path)
    ELSE NoId

\* strings.HasSuffix(parsed.Path, "/uc")
PathIsUc(path) == Len(path) > 0 /\ path[Len(path)] = "uc"

PuResult(id, dlLink, err, warned) ==
    [fileId |-> id, isDownloadLink |-> dlLink, err |-> err, warned |-> warned]

\* A ParseUrl that tries the path templates before the id parameter.
ParseUrl_PathFirst(u, warn) ==
    IF ~u.ok THEN PuResult(NoId, FALSE, "parse", FALSE)
    ELSE IF ~IsGoogleDriveUrl(u) THEN PuResult(NoId, FALSE, "", FALSE)
    ELSE IF PathId(u.path) # NoId
         THEN PuResult(PathId(u.path), PathIsUc(u.path), "",
                       warn /\ ~PathIsUc(u.path))
    ELSE IF QueryHas(ParseQuery(u.query), "id")
         THEN PuResult(<<QueryGet(ParseQuery(u.query), "id")>>,
                       PathIsUc(u.path), "", FALSE)
    ELSE PuResult(NoId, PathIsUc(u.path), "", FALSE)

ParseUrl(u, warn) ==
    IF ~u.ok THEN PuResult(NoId, FALSE, "parse", FALSE)
    ELSE LET queryParams == ParseQuery(u.query)
             isGDrive == IsGoogleDriveUrl(u)
             isDownloadLink == PathIsUc(u.path)
         IN IF ~isGDrive THEN PuResult(NoId, FALSE, "", FALSE)
            ELSE IF QueryHas(queryParams, "id")
                 THEN PuResult(<<QueryGet(queryParams, "id")>>, isDownloadLink,
                               "", FALSE)
            ELSE LET fileId == PathId(u.path)
                 IN PuResult(fileId, isDownloadLink, "",
                             warn /\ fileId # NoId /\ ~isDownloadLink)

InitParse ==
    /\ fs = BaseFs(NoFile, NoFile)
    /\ fs0 = fs
    /\ dl = [p \in Procs |-> DlIdle]
    /\ cd = [p \in Procs |-> CdIdle]
    /\ \E u \in UrlInputs, w \in BOOLEAN :
          pu = [pc |-> "call", url |-> u, warn |-> w,
                res |-> PuResult(NoId, FALSE, "", FALSE)]
    /\ tr = TrIdle
    /\ net = AnyServer
    /\ ex = ExIdle
    /\ tw = TwIdle
    /\ df = DfIdle

ParseUrlCall ==
    /\ pu.pc = "call"
    /\ pu' = [pu EXCEPT !.pc = "done", !.res = ParseUrl(pu.url, pu.warn)]
    /\ UNCHANGED <<net, ex, tw, df, fs, fs0, dl, cd, tr>>

NextParse == ParseUrlCall

SpecParse == InitParse /\ [][NextParse]_vars

PuDone == pu.pc = "done"

\* The id parameters of the URL that are well formed (their value is a
\* valid escaped string), and what each stands for.
WellFormedId(i) ==
    /\ pu.url.query[i][1] = "id"
    /\ pu.url.query[i][2] \in {"", "A", "a%2Fb"}
IdValue(i) ==
    CASE pu.url.query[i][2] = "" -> ""
      [] pu.url.query[i][2] = "A" -> "A"
      [] pu.url.query[i][2] = "a%2Fb" -> "a/b"

HasIdParameter == \E i \in 1..Len(pu.url.query) : WellFormedId(i)

\* The value of the URL's first id parameter is the identifier returned.
ReturnsIdParameter ==
    \E i \in 1..Len(pu.url.query) :
        /\ WellFormedId(i)
        /\ \A j \in 1..(i - 1) : ~WellFormedId(j)
        /\ pu.res.fileId = <<IdValue(i)>>

ProviderHost == pu.url.host.name \in {"drive.google.com", "docs.google.com"}

(* C6 as claimed: for all URLs with an id query parameter, ParseUrl returns
   exactly that parameter's value, whatever the path. *)
C6_IdParameterReturned ==
    (PuDone /\ pu.url.ok /\ HasIdParameter) => ReturnsIdParameter

(* C6 amended: for all URLs of the provider's hosts (drive.google.com,
   docs.google.com) with a well-formed id query parameter, ParseUrl returns
   exactly the unescaped value of the first such parameter, with no error,
   whatever the path. *)
C6_ProviderIdParameterReturned ==
    (PuDone /\ pu.url.ok /\ HasIdParameter /\ ProviderHost)
    => pu.res.err = "" /\ ReturnsIdParameter

\* A provider URL whose path matches a template capturing X and whose
\* query is x=A&id=%zz&id=a%2Fb yields a/b.
C6_Witness ==
    /\ PuDone
    /\ pu.url.host.name = "drive.google.com"
    /\ pu.url.path = <<"file", "d", "X", "view">>
    /\ pu.url.query \in {<<<<"id", "%zz">>, <<"id", "a%2Fb">>>>,
                         <<<<"x", "A">>, <<"id", "a%2Fb">>>>}
    /\ pu.res.fileId = <<"a/b">>

(* C7: for every parseable URL whose host is neither drive.google.com nor
   docs.google.com, ParseUrl returns an empty identifier, a false
   direct-download flag and no error, whatever the path and the query. *)
C7_ForeignHostEmpty ==
    (PuDone /\ pu.url.ok /\ ~ProviderHost)
    => pu.res.fileId = NoId /\ ~pu.res.isDownloadLink /\ pu.res.err = ""

\* A foreign URL with an id parameter, a template path ending in /uc.
C7_Witness ==
    /\ PuDone
    /\ pu.url.host.name = "example.com"
    /\ pu.url.path = <<"file", "d", "X", "uc">>
    /\ pu.url.query = <<<<"id", "A">>>>
    /\ pu.res.fileId = NoId

(* C8: ParseUrl emits the advisory in exactly the calls where warnings are
   enabled, the URL is the provider's, an identifier was found (from the id
   parameter or from a path template) and the URL is not a direct-download
   link; a call that emits it returns no error. *)
C8_AdvisoryExactly ==
    PuDone =>
        /\ pu.res.warned <=>
              ( /\ pu.warn /\ pu.url.ok /\ ProviderHost
                /\ pu.res.fileId # NoId /\ ~pu.res.isDownloadLink )
        /\ pu.res.warned => pu.res.err = ""

----------------------------------------------------------------------------
(* Folder tree resolution: downloadAndParseGoogleDriveLink *)

MAX_NUMBER_FILES == 50

FolderType == "application/vnd.google-apps.folder"

(* The provider holds three folders, root, A and B.  A folder page lists
   files and at most one subfolder (A in root, B in A), first or last. *)
FolderIds == {"root", "A", "B"}
FolderSizes ==
    (0..MaxSmall)
    \cup {MAX_NUMBER_FILES - 1, MAX_NUMBER_FILES, MAX_NUMBER_FILES + 1}
SubPlaces == {"none", "first", "last"}

FileRow(f, i) == [id |-> <<f, i>>, name |-> <<f, i>>, type |-> "text/plain"]
FolderRow(g) == [id |-> <<g>>, name |-> <<g>>, type |-> FolderType]

PageRows(f, n, sub, place) ==
    LET files == [i \in 1..n |-> FileRow(f, i)]
    IN CASE place = "none" -> files
         [] place = "first" -> <<FolderRow(sub)>> \o files
         [] place = "last" -> files \o <<FolderRow(sub)>>

ProviderPages ==
    { [f \in FolderIds |->
         CASE f = "root" -> PageRows("root", n1, "A", pa)
           [] f = "A" -> PageRows("A", n2, "B", pb)
           [] f = "B" -> PageRows("B", n3, "", "none")] :
        n1 \in FolderSizes, n2 \in FolderSizes, n3 \in FolderSizes,
        pa \in SubPlaces, pb \in SubPlaces }

\* The name in the title of a folder's page, when it is the folder's
\* identifier.
Titles == [f \in FolderIds |-> f]

\* A GoogleDriveFile.  A folder's ID is the base name of the URL fetched,
\* which by then ends in ?hl=en; its Name is the page title's.
NoNode == [id |-> <<>>, name |-> <<>>, type |-> "", children |-> <<>>]
Leaf(row) == [id |-> row.id, name |-> row.name, type |-> row.type,
              children |-> <<>>]
FolderNode(f, children) ==
    [id |-> <<f, "?hl=en">>, name |-> tr.titles[f], type |-> FolderType,
     children |-> children]

TrStart(pages, remainingOk) ==
    [pc |-> "fetch", pages |-> pages, titles |-> Titles,
     remainingOk |-> remainingOk,
     target |-> "root", stack |-> <<>>, result |-> NoNode, err |-> ""]

\* Fetch and parse the page of the folder to resolve.  A transport error,
\* a status other than 200 or an unparsable page ends the whole resolution:
\* every caller up the recursion returns the error.
TrFetch ==
    /\ tr.pc = "fetch"
    /\ \/ \E e \in {"net", "status", "parse"} :
            tr' = [tr EXCEPT !.pc = "done", !.err = e, !.stack = <<>>]
       \/ tr' = [tr EXCEPT !.pc = "loop",
                           !.stack = Append(@, [id |-> tr.target,
                                                rows |-> tr.pages[tr.target],
                                                i |-> 1,
                                                children |-> <<>>])]
    /\ UNCHANGED <<net, ex, tw, df, fs, fs0, dl, cd, pu>>

\* One round of the loop over the children: a file is attached as a leaf,
\* a folder is resolved by a fetch of its own.
TrChild ==
    /\ tr.pc = "loop"
    /\ LET top == tr.stack[Len(tr.stack)]
       IN /\ top.i <= Len(top.rows)
          /\ LET child == top.rows[top.i]
             IN IF child.type # FolderType
                THEN tr' = [tr EXCEPT
                              !.stack[Len(tr.stack)].children =
                                  Append(@, Leaf(child)),
                              !.stack[Len(tr.stack)].i = @ + 1]
                ELSE tr' = [tr EXCEPT !.pc = "fetch",
                                      !.target = child.id[1]]
    /\ UNCHANGED <<net, ex, tw, df, fs, fs0, dl, cd, pu>>

\* The size check of a folder, failing for MAX_NUMBER_FILES children or
\* more.
TooMany_AtLeast(children, remainingOk) ==
    Len(children) >= MAX_NUMBER_FILES /\ ~remainingOk

TooMany(children, remainingOk) ==
    Len(children) = MAX_NUMBER_FILES /\ ~remainingOk

\* After the loop: the size check, then the folder is returned to the
\* caller, which attaches it and goes on with its next child.
TrReturn ==
    /\ tr.pc = "loop"
    /\ LET n == Len(tr.stack)
           top == tr.stack[n]
           node == FolderNode(top.id, top.children)
       IN /\ top.i > Len(top.rows)
          /\ IF TooMany(top.children, tr.remainingOk)
             THEN tr' = [tr EXCEPT !.pc = "done", !.err = "toomany",
                                   !.stack = <<>>]
             ELSE IF n = 1
             THEN tr' = [tr EXCEPT !.pc = "done", !.result = node,
                                   !.stack = <<>>]
             ELSE tr' = [tr EXCEPT
                           !.stack = [SubSeq(tr.stack, 1, n - 1) EXCEPT
                                        ![n - 1].children = Append(@, node),
                                        ![n - 1].i = @ + 1]]
    /\ UNCHANGED <<net, ex, tw, df, fs, fs0, dl, cd, pu>>

InitTree ==
    /\ fs = BaseFs(NoFile, NoFile)
    /\ fs0 = fs
    /\ dl = [p \in Procs |-> DlIdle]
    /\ cd = [p \in Procs |-> CdIdle]
    /\ pu = PuIdle
    /\ \E pages \in ProviderPages, ok \in BOOLEAN : tr = TrStart(pages, ok)
    /\ net = AnyServer
    /\ ex = ExIdle
    /\ tw = TwIdle
    /\ df = DfIdle

NextTree == TrFetch \/ TrChild \/ TrReturn

SpecTree == InitTree /\ [][NextTree]_vars

TrDone == tr.pc = "done"

\* The folders of the provider's tree: the root and what it links to.
RECURSIVE TreeFolders(_)
TreeFolders(f) ==
    {f} \cup UNION { TreeFolders(tr.pages[f][i].id[1]) :
                       i \in { j \in 1..Len(tr.pages[f]) :
                                 tr.pages[f][j].type = FolderType } }

\* The tree the provider's pages describe, children in manifest order.
RECURSIVE ProviderTree(_)
ProviderTree(f) ==
    [id |-> <<f, "?hl=en">>, name |-> tr.titles[f], type |-> FolderType,
     children |->
        [i \in 1..Len(tr.pages[f]) |->
            IF tr.pages[f][i].type = FolderType
            THEN ProviderTree(tr.pages[f][i].id[1])
            ELSE [id |-> tr.pages[f][i].id, name |-> tr.pages[f][i].name,
                  type |-> tr.pages[f][i].type, children |-> <<>>]]]

SomeFolderFull ==
    \E f \in TreeFolders("root") : Len(tr.pages[f]) = MAX_NUMBER_FILES

(* C5 as claimed: folder tree resolution fails if and only if remainingOk is
   false and some folder of the tree has exactly MAX_NUMBER_FILES direct
   children; a resolution that succeeds returns every folder's children in
   manifest order. *)
C5_FailsIffFullFolder ==
    TrDone =>
        /\ (tr.err # "") <=> (~tr.remainingOk /\ SomeFolderFull)
        /\ tr.err = "" => tr.result = ProviderTree("root")

(* C5 amended: when every folder page of the tree is fetched and parsed,
   resolution fails if and only if remainingOk is false and some folder of
   the tree, the root or a nested one, has exactly MAX_NUMBER_FILES direct
   children; a resolution that succeeds, as every one with remainingOk true
   then does, returns every folder's children, all 50 of a full folder, in
   manifest order.  (A page that cannot be fetched or parsed fails the
   resolution whatever the sizes.) *)
C5_FailsIffFullFolderWhenFetched ==
    (TrDone /\ tr.err \notin {"net", "status", "parse"}) =>
        /\ (tr.err # "") <=> (~tr.remainingOk /\ SomeFolderFull)
        /\ tr.err = "" => tr.result = ProviderTree("root")

\* With remainingOk a nested folder of exactly 50 children, the last of
\* them a folder, is resolved with its 50 children.
C5_Witness ==
    /\ TrDone /\ tr.err = "" /\ tr.remainingOk
    /\ Len(tr.result.children) = 1
    /\ Len(tr.result.children[1].children) = MAX_NUMBER_FILES
    /\ tr.result.children[1].children[MAX_NUMBER_FILES].type = FolderType

----------------------------------------------------------------------------
(* CachedDownload *)

(* A hash is the sequence of its fields between colons: "md5:<digest>" is
   <<"md5", digest>>, the empty string is <<>>.  MD5 is kept abstract: the
   digest of some bytes is a value that names them. *)
MD5Sum(bytes) == [md5 |-> bytes]

HashOfContent == <<"md5", MD5Sum(Content)>>
HashOfStale == <<"md5", MD5Sum(Stale)>>
HashUnsupported == <<"sha256", MD5Sum(Content)>>
Hashes == {NoHash, HashOfContent, HashOfStale, HashUnsupported}

\* assertFileHash(filename, expectedHash): (ok, err).
assertFileHash(f, path, hash) ==
    IF Len(hash) < 2 THEN [ok |-> FALSE, err |-> "invalid hash format"]
    ELSE IF hash[1] # "md5"
         THEN [ok |-> FALSE, err |-> "unsupported hash algorithm"]
    ELSE IF ~fileExists(f, path) THEN [ok |-> FALSE, err |-> "open"]
    ELSE IF <<MD5Sum(f[path].data)>> = Tail(hash)
         THEN [ok |-> TRUE, err |-> ""]
    ELSE [ok |-> FALSE, err |-> "hash mismatch"]

\* The cache path: the one given, or the cache root joined with the URL
\* made a file name.
CdOutputPath(url, outputPath) ==
    IF outputPath = NoPath THEN CachePath(url) ELSE outputPath

\* The URL every caller asks for, and its cache path.
CdUrl == UrlExport
CdPath == CdOutputPath(CdUrl, NoPath)

CdCall(hash, postprocess, resume) ==
    [CdIdle EXCEPT !.pc = "start", !.hash = hash,
                   !.postprocess = postprocess, !.resume = resume]

CdReturn(c, path, err) == [c EXCEPT !.pc = "done", !.ret = path, !.err = err]

\* A cache that is never trusted: every call downloads.
CacheHit_Never(f, path, hash) == FALSE

\* The file at the cache path is returned as it is: it exists and no hash
\* was asked for, or it matches the hash.
CacheHit(f, path, hash) ==
    /\ fileExists(f, path)
    /\ hash = NoHash \/ assertFileHash(f, path, hash).ok

\* Entry: the cache path, and the file there returned if it will do.
CdCheck(p) ==
    /\ cd[p].pc = "start"
    /\ LET out == CdOutputPath(CdUrl, NoPath)
           c == [cd[p] EXCEPT !.outputPath = out, !.found = fs[out],
                              !.after = {q \in Procs : cd[q].pc = "done"}]
       IN IF CacheHit(fs, out, cd[p].hash)
          THEN cd' = [cd EXCEPT ![p] = CdReturn(c, out, "")]
          ELSE cd' = [cd EXCEPT ![p] = [c EXCEPT !.pc = "mkdir"]]
    /\ UNCHANGED <<net, ex, tw, df, fs, fs0, dl, pu, tr>>

\* A Download straight into the cache path.
CdTempPath_Final(n) == CdPath

\* tempPath: the file "dl" of the temporary directory.
CdTempPath(n) == TmpFile(n)

(* os.MkdirTemp creates a directory of a name not in use and Download is
   called on a file inside it; or it fails (the cache root is missing, the
   error of os.MkdirAll having been dropped, or cannot be written) and the
   call returns its error: no directory, no Download. *)
CdMkdirTemp(p) ==
    /\ cd[p].pc = "mkdir"
    /\ \/ \E n \in TmpNames :
             /\ fs[TmpDir(n)].kind = "none"
             /\ fs' = [fs EXCEPT ![TmpDir(n)] = DirEntry]
             /\ cd' = [cd EXCEPT ![p].pc = "download", ![p].tmp = n,
                                 ![p].downloads = @ + 1]
             /\ dl' = [dl EXCEPT ![p] =
                           DlEntry(CdUrl, CdTempPath(n), cd[p].resume)]
       \/ /\ cd' = [cd EXCEPT ![p] = CdReturn(cd[p], NoPath, "mkdirtemp")]
          /\ fs' = fs
          /\ dl' = dl
    /\ UNCHANGED <<net, ex, tw, df, fs0, pu, tr>>

\* A return that leaves the temporary directory behind.
RemoveAll_Keep(f, n) == f

\* os.RemoveAll(tmpDir), deferred to the return.
RemoveAll(f, n) ==
    [f EXCEPT ![TmpDir(n)] = NoFile, ![TmpFile(n)] = NoFile]

\* Download has returned (its frame is gone): its error is returned, or its
\* file is renamed to the cache path.  os.Rename fails when there is no
\* such file.
CdRename(p) ==
    /\ cd[p].pc = "download"
    /\ dl[p].pc = "done"
    /\ LET src == dl[p].ret
           dst == cd[p].outputPath
           c == [cd[p] EXCEPT !.requested = dl[p].requested]
       IN IF dl[p].err # ""
          THEN /\ cd' = [cd EXCEPT ![p] = CdReturn(c, NoPath, dl[p].err)]
               /\ fs' = RemoveAll(fs, cd[p].tmp)
          ELSE IF ~fileExists(fs, src) \/ IsDir(fs, dst)
          THEN /\ cd' = [cd EXCEPT ![p] = CdReturn(c, NoPath, "rename")]
               /\ fs' = RemoveAll(fs, cd[p].tmp)
          ELSE /\ cd' = [cd EXCEPT ![p] = [c EXCEPT !.pc = "verify"]]
               /\ fs' = [fs EXCEPT ![dst] = fs[src], ![src] = NoFile]
    /\ dl' = [dl EXCEPT ![p] = DlIdle]
    /\ UNCHANGED <<net, ex, tw, df, fs0, pu, tr>>

\* A CachedDownload that returns the path whatever the hash check says.
CdVerified_Unchecked(f, path, hash) == TRUE

\* The check after the rename: no hash was asked for, or the file at the
\* cache path matches it.
CdVerified(f, path, hash) ==
    hash = NoHash \/ (assertFileHash(f, path, hash).err = ""
                      /\ assertFileHash(f, path, hash).ok)

(* The postprocess callback, the caller's code run on the cache path: one
   that fails without effect, and one that writes a file derived from the
   cached one beside it, in the cache directory (as an extraction to the
   file's directory does), and returns nil. *)
Postprocess(f, kind, path) ==
    IF kind = "writes" /\ fileExists(f, path)
    THEN [fs |-> [f EXCEPT ![PostprocessPath] = FileOf(f[path].data)],
          err |-> ""]
    ELSE [fs |-> f, err |-> "postprocess"]

(* After the rename: the hash check.  A mismatch is returned, as is the
   path when there is no postprocess, the temporary directory being removed
   on the way out; else the callback is called. *)
CdVerify(p) ==
    /\ cd[p].pc = "verify"
    /\ LET out == cd[p].outputPath
           c == [cd[p] EXCEPT !.seen = fs[out]]
       IN IF ~CdVerified(fs, out, cd[p].hash)
          THEN /\ cd' = [cd EXCEPT ![p] =
                            CdReturn(c, NoPath, "hash mismatch for file")]
               /\ fs' = RemoveAll(fs, cd[p].tmp)
          ELSE IF cd[p].postprocess = "nil"
          THEN /\ cd' = [cd EXCEPT ![p] = CdReturn(c, out, "")]
               /\ fs' = RemoveAll(fs, cd[p].tmp)
          ELSE /\ cd' = [cd EXCEPT ![p] = [c EXCEPT !.pc = "postprocess"]]
               /\ fs' = fs
    /\ UNCHANGED <<net, ex, tw, df, fs0, dl, pu, tr>>

(* The callback runs, while other callers go on and the temporary directory
   still exists, and returns: its error is returned, else the path; the
   temporary directory is removed on the way out. *)
CdPostprocess(p) ==
    /\ cd[p].pc = "postprocess"
    /\ LET out == cd[p].outputPath
           r == Postprocess(fs, cd[p].postprocess, out)
       IN /\ cd' = [cd EXCEPT ![p] =
                       IF r.err # "" THEN CdReturn(cd[p], NoPath, r.err)
                       ELSE CdReturn(cd[p], out, "")]
          /\ fs' = RemoveAll(r.fs, cd[p].tmp)
    /\ UNCHANGED <<net, ex, tw, df, fs0, dl, pu, tr>>

CachedDownloadStep(p) ==
    \/ CdCheck(p)
    \/ CdMkdirTemp(p)
    \/ CdRename(p)
    \/ CdVerify(p)
    \/ CdPostprocess(p)

\* What the cache path may hold before the calls: nothing, the resource, or
\* another file.
CachedFiles == {NoFile, FileOf(Content), FileOf(Stale)}

InitCache ==
    /\ \E cached \in CachedFiles : fs = BaseFs(NoFile, cached)
    /\ fs0 = fs
    /\ dl = [p \in Procs |-> DlIdle]
    /\ \E pp \in {"nil", "fails", "writes"}, r \in BOOLEAN :
          cd \in [Procs -> {CdCall(h, pp, r) : h \in Hashes}]
    /\ pu = PuIdle
    /\ tr = TrIdle
    /\ net = PlainServer
    /\ ex = ExIdle
    /\ tw = TwIdle
    /\ df = DfIdle

NextCache == \E p \in Procs : CachedDownloadStep(p) \/ DownloadStep(p)

SpecCache == InitCache /\ [][NextCache]_vars


CdDone(p) == cd[p].pc = "done"

\* Call q began after call p, the first call, had returned without error;
\* neither asked for a hash (every call is for the same URL and gives no
\* output path).
InSuccession(p, q) ==
    /\ p # q
    /\ CdDone(p) /\ CdDone(q)
    /\ cd[p].after = {} /\ p \in cd[q].after
    /\ cd[p].err = ""
    /\ cd[p].hash = NoHash /\ cd[q].hash = NoHash

\* The second call downloads nothing, sends no request and returns the
\* path the first returned.
SecondFromCache(p, q) ==
    /\ cd[q].downloads = 0
    /\ ~cd[q].requested
    /\ cd[q].err = ""
    /\ cd[q].ret = cd[p].ret
    /\ cd[q].ret = CachePath(UrlExport)

(* C3 as claimed: two CachedDownload calls in succession for the same URL,
   with no output path and no hash, the first succeeding, perform exactly
   one network fetch between them; the second sends no request and returns
   the first's path. *)
C3_ExactlyOneFetch ==
    \A p, q \in Procs :
        InSuccession(p, q)
        => cd[p].downloads + cd[q].downloads = 1 /\ SecondFromCache(p, q)

(* C3 amended: of two such calls the second sends no request and returns
   the first's path, and the first performs exactly one Download when the
   cache path held no file before it and none when it did: the two calls
   perform at most one network fetch, exactly one from an empty cache. *)
C3_AtMostOneFetch ==
    \A p, q \in Procs :
        InSuccession(p, q)
        => /\ SecondFromCache(p, q)
           /\ cd[p].downloads = IF fileExists(fs0, CdPath) THEN 0 ELSE 1

\* From an empty cache, the first call downloaded and the second did not.
C3_Witness ==
    /\ InSuccession("p1", "p2")
    /\ fs0[CdPath] = NoFile
    /\ cd["p1"].downloads = 1 /\ cd["p1"].requested
    /\ cd["p2"].downloads = 0
    /\ fs[CdPath] = FileOf(Content)

\* The file is what the hash names: an MD5 digest of its bytes.
GoodHash(file, hash) ==
    file.kind = "file" /\ hash = <<"md5", [md5 |-> file.data]>>

(* C4 as claimed: a CachedDownload called with a hash that the file at the
   cache path does not match makes exactly one Download attempt; if the
   file then at the cache path still does not match, the call returns an
   error and no path, having made no further attempt. *)
C4_OneRedownload ==
    \A p \in Procs :
        ( /\ CdDone(p) /\ cd[p].hash # NoHash
          /\ cd[p].found.kind = "file" /\ ~GoodHash(cd[p].found, cd[p].hash) )
        => /\ cd[p].downloads = 1
           /\ cd[p].err = "" => GoodHash(cd[p].seen, cd[p].hash)
           /\ (cd[p].seen.kind = "file" /\ ~GoodHash(cd[p].seen, cd[p].hash))
              => cd[p].err # "" /\ cd[p].ret = NoPath

(* C4 amended: such a call makes at most one Download attempt: exactly one
   when its temporary directory can be created, none when os.MkdirTemp
   fails, and then it returns that error and no path.  It returns a path
   only for a file that matches; if the freshly downloaded file still does
   not match, it returns an error and no path, having made no further
   attempt. *)
C4_AtMostOneRedownload ==
    \A p \in Procs :
        ( /\ CdDone(p) /\ cd[p].hash # NoHash
          /\ cd[p].found.kind = "file" /\ ~GoodHash(cd[p].found, cd[p].hash) )
        => /\ cd[p].downloads = IF cd[p].err = "mkdirtemp" THEN 0 ELSE 1
           /\ cd[p].err = "mkdirtemp" => cd[p].ret = NoPath /\ ~cd[p].requested
           /\ cd[p].err = "" => GoodHash(cd[p].seen, cd[p].hash)
           /\ (cd[p].seen.kind = "file" /\ ~GoodHash(cd[p].seen, cd[p].hash))
              => cd[p].err # "" /\ cd[p].ret = NoPath

\* The cache held the resource, the call asked for another digest, the
\* download brought the resource again and the call failed.
C4_Witness ==
    /\ CdDone("p1")
    /\ cd["p1"].hash = HashOfStale
    /\ cd["p1"].found = FileOf(Content)
    /\ cd["p1"].seen = FileOf(Content)
    /\ cd["p1"].downloads = 1
    /\ cd["p1"].err = "hash mismatch for file" /\ cd["p1"].ret = NoPath

\* A call between the creation of its temporary directory and its return.
InFlight(p) == cd[p].pc \in {"download", "verify", "postprocess"}

(* C10: in every state of every interleaving of CachedDownload calls for
   one key, the file at the cache path is absent, or the file that was
   there before the calls, or the complete output of a finished Download;
   each call in flight downloads into a file of its own temporary
   directory, which did not exist before and which no other call uses. *)
C10_NoPartialFileAtCachePath ==
    /\ fs[CdPath] \in {NoFile, fs0[CdPath], FileOf(Content)}
    /\ \A p \in Procs :
          InFlight(p) =>
            /\ IsDir(fs, TmpDir(cd[p].tmp))
            /\ fs0[TmpDir(cd[p].tmp)] = NoFile
            /\ \A q \in Procs \ {p} : InFlight(q) => cd[q].tmp # cd[p].tmp
    /\ \A p \in Procs :
          dl[p].pc # "idle" =>
            /\ cd[p].pc = "download"
            /\ dl[p].output = TmpFile(cd[p].tmp)
            /\ ~dl[p].opened => fs[dl[p].output] = NoFile

\* One call has renamed its download over a stale cache file while the
\* other's temporary file is still partial.
C10_Witness ==
    /\ cd["p1"].pc = "verify"
    /\ fs0[CdPath] = FileOf(Stale) /\ fs[CdPath] = FileOf(Content)
    /\ cd["p2"].pc = "download" /\ dl["p2"].pc = "copy"
    /\ fs[TmpFile(cd["p2"].tmp)] = FileOf(SubSeq(Content, 1, 1))

(* C11 as claimed: a CachedDownload called with a hash whose algorithm is
   not supported never returns the error it returns for a digest that does
   not match: the unsupported algorithm is not reported as a hash
   mismatch. *)
C11_UnsupportedNotMismatch ==
    \A p \in Procs :
        (CdDone(p) /\ cd[p].hash = HashUnsupported)
        => cd[p].err # "hash mismatch for file"

(* C15: a temporary directory of CachedDownload exists only while the call
   that created it is in flight: whichever way the call returns after
   creating it (Download failed, the rename failed, the hash did not match,
   postprocess failed, success), the directory and the file in it are gone,
   and once every call has returned none remains under the cache root. *)
C15_TempDirsRemoved ==
    \A n \in TmpNames :
        (fs[TmpDir(n)] # NoFile \/ fs[TmpFile(n)] # NoFile)
        => \E p \in Procs : InFlight(p) /\ cd[p].tmp = n

\* Both calls created a temporary directory and have returned, one with a
\* hash mismatch and one with a failure of Download; none is left.
C15_Witness ==
    /\ CdDone("p1") /\ CdDone("p2")
    /\ cd["p1"].tmp # "" /\ cd["p2"].tmp # ""
    /\ cd["p1"].err = "hash mismatch for file"
    /\ cd["p2"].err \notin {"", "hash mismatch for file", "postprocess"}
    /\ \A n \in TmpNames : fs[TmpDir(n)] = NoFile /\ fs[TmpFile(n)] = NoFile

(* C20 as claimed: after a CachedDownload has failed because the file it
   downloaded does not match the requested hash, no later call for the same
   key returns without error and without downloading the file that failed
   the verification. *)
C20_UnverifiedFileNotServed ==
    \A p, q \in Procs :
        ( /\ p # q /\ CdDone(p) /\ CdDone(q) /\ p \in cd[q].after
          /\ cd[p].err = "hash mismatch for file"
          /\ cd[p].seen.kind = "file"
          /\ cd[q].err = "" /\ cd[q].downloads = 0 )
        => cd[q].found # cd[p].seen

----------------------------------------------------------------------------
(* ThrottledWriter *)

(* The clock counts ticks, TicksPerSecond of them to the second; the writer
   is created at tick 0.  A time.Duration is a whole number of ticks. *)
TicksPerSecond == 2

\* Largest configured speed, in bytes per second.
MaxSpeed == 3

\* Most bytes handed to one Write, and most written in all.
MaxChunk == 2
MaxWritten == 6

\* Most ticks the underlying writer takes for one Write, and the last tick
\* of the clock.
MaxDelay == 1
MaxTime == 8

\* NewThrottledWriter(w, speed)
NewThrottledWriter(speed) ==
    [pc |-> "open", speed |-> speed, start |-> 0, written |-> 0,
     now |-> 0, calls |-> 0]

\* time.Duration(float64(written)/float64(speed)) * time.Second: the
\* conversion to Duration drops the fraction of the quotient, a number of
\* seconds.
Expected(written, speed) == (written \div speed) * TicksPerSecond

(* Write(p): the underlying writer takes n of the len bytes in d ticks; the
   call then sleeps until the expected time when it is ahead of it. *)
TwWrite ==
    /\ tw.pc = "open"
    /\ \E len \in 1..MaxChunk, d \in 0..MaxDelay :
       \E n \in 0..len :
          /\ tw.written + n <= MaxWritten
          /\ tw.now + d <= MaxTime
          /\ LET written == tw.written + n
                 elapsed == (tw.now + d) - tw.start
                 expected == Expected(written, tw.speed)
             IN tw' = [tw EXCEPT
                         !.written = written,
                         !.calls = IF @ = 0 THEN 1 ELSE @,
                         !.now = IF expected > elapsed
                                 THEN tw.start + expected
                                 ELSE tw.now + d]
    /\ UNCHANGED <<net, ex, df, fs, fs0, dl, cd, pu, tr>>

InitThrottle ==
    /\ fs = BaseFs(NoFile, NoFile)
    /\ fs0 = fs
    /\ dl = [p \in Procs |-> DlIdle]
    /\ cd = [p \in Procs |-> CdIdle]
    /\ pu = PuIdle
    /\ tr = TrIdle
    /\ net = AnyServer
    /\ ex = ExIdle
    /\ df = DfIdle
    /\ \E speed \in 1..MaxSpeed : tw = NewThrottledWriter(speed)

NextThrottle == TwWrite

SpecThrottle == InitThrottle /\ [][NextThrottle]_vars

(* C12 as claimed: after every sequence of Write calls totalling S bytes
   through a writer of rate R > 0, the last Write has returned no earlier
   than S/R seconds after the writer was created. *)
C12_NeverFasterThanRate ==
    tw.calls > 0 =>
        (tw.now - tw.start) * tw.speed >= tw.written * TicksPerSecond

----------------------------------------------------------------------------
(* Folders: getDirectoryStructure, ListFolder, DownloadFolder *)

\* Most rows of a folder page of the trees listed and downloaded.
MaxRows == 2

(* Names are strings.  A relative path is the sequence of its components:
   "" is <<>>, "." is <<".">>, "../a" is <<"..", "a">>. *)
FileNames == {"a/b", ".."}
FolderNames == {"d", ".."}

\* strings.ReplaceAll(name, "/", "_")
SafeName(name) == IF name = "a/b" THEN "a_b" ELSE name

(* An entry of the flattened structure: a FileToDownload, and the node of
   the tree it was made for (history: the child indices from the root). *)
DirEntryOf(path, node) ==
    [ID |-> <<>>, Path |-> path, LocalPath |-> path, node |-> node]
FileEntryOf(id, path, node) ==
    [ID |-> id, Path |-> path, LocalPath |-> <<>>, node |-> node]

\* A walk that emits a folder's entry after the entries of its subtree.
RECURSIVE getDirectoryStructureFrom_PostOrder(_, _, _, _)
getDirectoryStructureFrom_PostOrder(gfile, prevPath, node, i) ==
    IF i > Len(gfile.children) THEN <<>>
    ELSE LET child == gfile.children[i]
             path == JoinClean(prevPath, SafeName(child.name))
             here == Append(node, i)
         IN (IF child.type = FolderType
             THEN getDirectoryStructureFrom_PostOrder(child, path, here, 1)
                  \o <<DirEntryOf(path, here)>>
             ELSE <<FileEntryOf(child.id, path, here)>>)
            \o getDirectoryStructureFrom_PostOrder(gfile, prevPath, node,
                                                   i + 1)

\* The loop of getDirectoryStructure from child i on, for the folder at
\* node: a folder child gives its entry and then its subtree's, a file
\* child its entry.
RECURSIVE getDirectoryStructureFrom(_, _, _, _)
getDirectoryStructureFrom(gfile, prevPath, node, i) ==
    IF i > Len(gfile.children) THEN <<>>
    ELSE LET child == gfile.children[i]
             path == JoinClean(prevPath, SafeName(child.name))
             here == Append(node, i)
         IN (IF child.type = FolderType
             THEN <<DirEntryOf(path, here)>>
                  \o getDirectoryStructureFrom(child, path, here, 1)
             ELSE <<FileEntryOf(child.id, path, here)>>)
            \o getDirectoryStructureFrom(gfile, prevPath, node, i + 1)

getDirectoryStructure(gfile, prevPath) ==
    getDirectoryStructureFrom(gfile, prevPath, <<>>, 1)

\* A row of a folder page: a file (every file is the resource X) or a
\* subfolder.
FileRowNamed(name) == [id |-> <<"X">>, name |-> name, type |-> "text/plain"]
FolderRowNamed(g, name) == [id |-> <<g>>, name |-> name, type |-> FolderType]

SeqsUpTo(S, k) == UNION { [1..n -> S] : n \in 0..k }

HasSub(rows) == \E i \in 1..Len(rows) : rows[i].type = FolderType

\* The pages of at most MaxRows rows: files of the names given and, at most
\* once, the subfolder g ("" for none).
PageSeqs(names, g, title) ==
    { s \in SeqsUpTo({FileRowNamed(n) : n \in names}
                     \cup (IF g = "" THEN {} ELSE {FolderRowNamed(g, title)}),
                     MaxRows) :
        Cardinality({ i \in 1..Len(s) : s[i].type = FolderType }) <= 1 }

\* The provider's folders: root may hold A, A may hold B; the page of a
\* folder that is not linked is empty.
FolderPages(names, titles) ==
    UNION { UNION { { [f \in FolderIds |->
                         CASE f = "root" -> r [] f = "A" -> a [] f = "B" -> b] :
                      b \in IF HasSub(a) THEN PageSeqs(names, "", "")
                            ELSE {<<>>} } :
                    a \in IF HasSub(r) THEN PageSeqs(names, "B", titles["B"])
                          ELSE {<<>>} } :
            r \in PageSeqs(names, "A", titles["A"]) }

FolderTitles ==
    { [f \in FolderIds |->
         CASE f = "root" -> "r" [] f = "A" -> ta [] f = "B" -> tb] :
        ta \in FolderNames, tb \in FolderNames }

\* DownloadFolder is called with the output "out" on files named a/b in
\* folders named d.
DfOutput == <<"out">>
DfFileNames == {"a/b"}
DfTitles == [f \in FolderIds |-> IF f = "root" THEN "r" ELSE "d"]

\* It is also called on trees with a file or the folder A named "..".
DfOddNames == {"a/b", ".."}
DfOddTitles ==
    { [f \in FolderIds |->
         CASE f = "root" -> "r" [] f = "A" -> ta [] f = "B" -> "d"] :
        ta \in FolderNames }

\* The paths DownloadFolder may touch: the root directory, the entries'
\* paths joined to it, a file named by the response inside each, and the
\* directories on the way to them.
DfRelPaths ==
    { JoinPath(<<>>, s) :
        s \in SeqsUpTo({SafeName(n) : n \in DfFileNames \cup DfOddNames}
                       \cup FolderNames, 3) }
DfPaths ==
    LET local == {DfOutput} \cup {JoinPath(DfOutput, r) : r \in DfRelPaths}
        all == local \cup {JoinClean(l, "downloaded_file") : l \in local}
    IN UNION { {SubSeq(q, 1, k) : k \in 1..Len(q)} : q \in all }

\* The working directory and the directories above it.
IsDots(path) ==
    path # <<>> /\ \A i \in 1..Len(path) : path[i] \in {".", ".."}

\* A file an interrupted run left in the root directory.
PartialPath == Join(DfOutput, "a_b")

FolderFs(pre) ==
    [path \in AllPaths \cup DfPaths |->
        IF path \in AllPaths THEN BaseFs(NoFile, NoFile)[path]
        ELSE IF path = PartialPath THEN pre
        ELSE IF path = DfOutput /\ pre # NoFile THEN DirEntry
        ELSE IF IsDots(path) THEN DirEntry
        ELSE NoFile]

\* os.MkdirAll(path): the missing directories of the path are created, up
\* to a component that is a file.
MkdirAll(f, path) ==
    [q \in DOMAIN f |->
        IF /\ f[q].kind = "none"
           /\ \E k \in 1..Len(path) :
                 /\ q = SubSeq(path, 1, k)
                 /\ \A j \in 1..k : f[SubSeq(path, 1, j)].kind # "file"
        THEN DirEntry ELSE f[q]]

\* ListFolder (op "list") or DownloadFolder (op "download") on entry: the
\* folder page is about to be resolved.
DfCall(op, resume) ==
    [pc |-> "resolve", op |-> op, resume |-> resume, output |-> DfOutput,
     rootDir |-> <<>>, files |-> <<>>, i |-> 1, infos |-> <<>>,
     downloaded |-> <<>>, skipped |-> {}, started |-> 0,
     requested |-> FALSE, ret |-> <<>>, err |-> ""]

\* rootDir: the output, which does not end in a separator here.
RootDir(output, gfile) == output

\* A FileInfo of ListFolder.
FileInfoOf(f) ==
    [ID |-> f.ID, Path |-> f.Path,
     DownloadURL |-> IF f.ID = <<>> THEN "" ELSE UrlUc,
     IsFolder |-> f.ID = <<>>]

\* A caller that goes on with whatever tree it got.
ResolveFailed_Ignored(t) == FALSE

\* downloadAndParseGoogleDriveLink returned an error.
ResolveFailed(t) == t.err # ""

(* The tree resolution has returned.  Its error is returned; else the tree
   is flattened, and ListFolder returns the infos while DownloadFolder
   creates the root directory and enters its loop. *)
DfResolved ==
    /\ df.pc = "resolve"
    /\ tr.pc = "done"
    /\ IF ResolveFailed(tr)
       THEN /\ df' = [df EXCEPT !.pc = "done", !.err = tr.err]
            /\ fs' = fs
       ELSE LET files == getDirectoryStructure(tr.result, <<>>)
                root == RootDir(df.output, tr.result)
            IN IF df.op = "list"
               THEN /\ df' = [df EXCEPT
                                !.pc = "done", !.files = files,
                                !.infos = [i \in 1..Len(files) |->
                                              FileInfoOf(files[i])]]
                    /\ fs' = fs
               ELSE /\ df' = [df EXCEPT !.pc = "loop", !.files = files,
                                        !.rootDir = root]
                    /\ fs' = MkdirAll(fs, root)
    /\ UNCHANGED <<net, ex, tw, fs0, dl, cd, pu, tr>>

(* One round of DownloadFolder's loop: a directory entry is created, a file
   that exists is skipped when resuming, any other file is downloaded. *)
DfEntry ==
    /\ df.pc = "loop"
    /\ df.i <= Len(df.files)
    /\ LET f == df.files[df.i]
           localPath == JoinPath(df.rootDir, f.Path)
       IN IF f.ID = <<>>
          THEN /\ fs' = MkdirAll(fs, localPath)
               /\ df' = [df EXCEPT !.i = @ + 1]
               /\ dl' = dl
          ELSE IF df.resume /\ fileExists(fs, localPath)
          THEN /\ df' = [df EXCEPT !.i = @ + 1,
                                   !.downloaded = Append(@, localPath),
                                   !.skipped = @ \cup {localPath}]
               /\ fs' = fs
               /\ dl' = dl
          ELSE /\ df' = [df EXCEPT !.pc = "download", !.started = 1]
               /\ dl' = [dl EXCEPT !["p1"] =
                            DlEntry(UrlUc, localPath, df.resume)]
               /\ fs' = fs
    /\ UNCHANGED <<net, ex, tw, fs0, cd, pu, tr>>

\* Download has returned: its error ends the call, its path is kept.
DfDownloaded ==
    /\ df.pc = "download"
    /\ dl["p1"].pc = "done"
    /\ IF dl["p1"].err # ""
       THEN df' = [df EXCEPT !.pc = "done", !.err = dl["p1"].err,
                             !.requested = @ \/ dl["p1"].requested]
       ELSE df' = [df EXCEPT !.pc = "loop", !.i = @ + 1,
                             !.downloaded = Append(@, dl["p1"].ret),
                             !.requested = @ \/ dl["p1"].requested]
    /\ dl' = [dl EXCEPT !["p1"] = DlIdle]
    /\ UNCHANGED <<net, ex, tw, fs, fs0, cd, pu, tr>>

\* After the loop DownloadFolder returns the paths.
DfReturn ==
    /\ df.pc = "loop"
    /\ df.i > Len(df.files)
    /\ df' = [df EXCEPT !.pc = "done", !.ret = df.downloaded]
    /\ UNCHANGED <<net, ex, tw, fs, fs0, dl, cd, pu, tr>>

(* ListFolder on the trees of FileNames and FolderNames; DownloadFolder,
   with and without Resume, on trees of one file name, the root directory
   holding nothing or a file of an earlier run; DownloadFolder into an
   empty place on trees with names "..". *)
InitFolder ==
    /\ \/ /\ \E titles \in FolderTitles, ok \in BOOLEAN :
               \E pages \in FolderPages(FileNames, titles) :
                  tr = [TrStart(pages, ok) EXCEPT !.titles = titles]
          /\ df = DfCall("list", FALSE)
          /\ fs = FolderFs(NoFile)
       \/ /\ \E pages \in FolderPages(DfFileNames, DfTitles) :
               tr = [TrStart(pages, FALSE) EXCEPT !.titles = DfTitles]
          /\ \E resume \in BOOLEAN : df = DfCall("download", resume)
          /\ \E pre \in {NoFile} \cup {FileOf(b) : b \in Prefixes} :
               fs = FolderFs(pre)
       \/ /\ \E titles \in DfOddTitles :
               \E pages \in FolderPages(DfOddNames, titles) :
                  tr = [TrStart(pages, FALSE) EXCEPT !.titles = titles]
          /\ df = DfCall("download", FALSE)
          /\ fs = FolderFs(NoFile)
    /\ fs0 = fs
    /\ dl = [p \in Procs |-> DlIdle]
    /\ cd = [p \in Procs |-> CdIdle]
    /\ pu = PuIdle
    /\ net = PlainServer
    /\ ex = ExIdle
    /\ tw = TwIdle

NextFolder ==
    \/ TrFetch \/ TrChild \/ TrReturn
    \/ DfResolved
    \/ DfEntry
    \/ DownloadStep("p1")
    \/ DfDownloaded
    \/ DfReturn

SpecFolder == InitFolder /\ [][NextFolder]_vars

DfDone == df.pc = "done"

\* The nodes of a tree below its root, each the child indices from the
\* root, and the node at such an address.
RECURSIVE NodesBelow(_, _)
NodesBelow(gfile, node) ==
    UNION { {Append(node, i)}
            \cup NodesBelow(gfile.children[i], Append(node, i)) :
              i \in 1..Len(gfile.children) }

RECURSIVE NodeAt(_, _)
NodeAt(gfile, node) ==
    IF node = <<>> THEN gfile
    ELSE NodeAt(gfile.children[Head(node)], Tail(node))

(* C13: in the sequence getDirectoryStructure returns there is exactly one
   entry for every node of the tree but the root and none for the root; an
   entry is a directory entry (empty ID) exactly for a folder; and the
   directory entry of every ancestor of an entry's node, the root apart,
   comes earlier in the sequence. *)
C13_ParentsBeforeChildren ==
    (DfDone /\ df.err = "") =>
        LET fl == df.files
            at(node) == { i \in 1..Len(fl) : fl[i].node = node }
        IN /\ at(<<>>) = {}
           /\ \A i \in 1..Len(fl) : fl[i].node \in NodesBelow(tr.result, <<>>)
           /\ \A node \in NodesBelow(tr.result, <<>>) :
                 Cardinality(at(node)) = 1
           /\ \A i \in 1..Len(fl) :
                 /\ fl[i].ID = <<>>
                       <=> NodeAt(tr.result, fl[i].node).type = FolderType
                 /\ \A k \in 1..(Len(fl[i].node) - 1) :
                       \E j \in 1..(i - 1) :
                          /\ fl[j].node = SubSeq(fl[i].node, 1, k)
                          /\ fl[j].ID = <<>>

\* ListFolder has flattened a tree with a file two folders down and a file
\* of the root after the folder: the file of the root comes last, after
\* the folder's entries.
C13_Witness ==
    /\ DfDone /\ df.err = "" /\ df.op = "list"
    /\ Len(df.files) = 4
    /\ df.files[1].node = <<1>> /\ df.files[1].ID = <<>>
    /\ df.files[2].node = <<1, 1>> /\ df.files[2].ID = <<>>
    /\ df.files[3].node = <<1, 1, 1>> /\ df.files[3].ID # <<>>
    /\ df.files[4].node = <<2>> /\ df.files[4].ID # <<>>
    /\ Len(df.infos) = 4

(* C14: tree resolution is all or nothing.  When the fetch of a folder
   page, at any depth, is answered with a status other than 200 or with a
   page that does not parse, downloadAndParseGoogleDriveLink is over with
   that error and no tree, and the caller never has entries, a started
   file download, a request sent or paths; once it has returned, it has
   returned that error, and the file system is as before the call. *)
C14_AllOrNothing ==
    tr.err \in {"status", "parse"} =>
        /\ tr.pc = "done" /\ tr.result = NoNode
        /\ df.files = <<>> /\ df.infos = <<>>
        /\ df.started = 0 /\ ~df.requested
        /\ dl["p1"] = DlIdle
        /\ df.ret = <<>> /\ df.downloaded = <<>>
        /\ DfDone => (df.err = tr.err /\ fs = fs0)

\* DownloadFolder has returned the parse error of the page of folder B,
\* two levels down, after its root page and A's were fetched.
C14_Witness ==
    /\ DfDone /\ df.op = "download"
    /\ tr.err = "parse" /\ tr.target = "B"
    /\ df.err = "parse" /\ df.ret = <<>>
    /\ fs = fs0

(* C19 as claimed: after DownloadFolder with Resume enabled has returned
   without error, every path it returns holds the complete content of the
   provider's file, also a path that held the first K bytes when the call
   started. *)
C19_ResumeCompletesFiles ==
    (DfDone /\ df.op = "download" /\ df.resume /\ df.err = "") =>
        \A i \in 1..Len(df.ret) : fs[df.ret[i]] = FileOf(Content)

\* The path is the directory or lies below it.
Inside(dir, path) ==
    Len(path) >= Len(dir) /\ SubSeq(path, 1, Len(dir)) = dir

\* The directory a path is in; a path of one component is in the working
\* directory.
ContainingDir(path) == IF Len(path) = 1 THEN <<".">> ELSE Parent(path)

(* C21 as claimed: every directory DownloadFolder creates and every file it
   writes lies inside rootDir, whatever the names in the provider's tree;
   and while a file's Download runs, the directory the file goes to
   exists. *)
C21_WritesInsideRootDir ==
    df.op = "download" =>
        /\ \A path \in DOMAIN fs :
              fs[path] # fs0[path] => Inside(DfOutput, path)
        /\ df.pc = "download" =>
              LET localPath == JoinPath(df.rootDir, df.files[df.i].Path)
              IN /\ Inside(df.rootDir, localPath)
                 /\ IsDir(fs, ContainingDir(localPath))

----------------------------------------------------------------------------
(* ExtractAll *)

\* Most entries of an archive.
MaxEntries == 2

(* An archive is a file at a path whose suffix gives the format; its
   content is the sequence of its entries, each a name (a relative path,
   as written in the archive), a type, the bytes of a file, and how
   reading it fails, if it does: at its header (zip: f.Open; tar:
   tarReader.Next), or in the copy after `read` of its bytes have been
   delivered (a broken stream, or a checksum found wrong at the end). *)
ArchiveZip == <<"cache", "a.zip">>
ArchiveTar == <<"cache", "a.tar.gz">>
ArchiveOther == <<"cache", "a.bin">>
ArchivePaths == {ArchiveZip, ArchiveTar, ArchiveOther}

\* strings.HasSuffix(archivePath, ".zip"), (".tar" | ".tar.gz" | ".tgz")
ArchiveFormat(path) ==
    CASE path = ArchiveZip -> "zip"
      [] path = ArchiveTar -> "tar"
      [] OTHER -> ""

ArchiveData == <<7, 8>>
ArchiveEntry(name, type, fail, read) ==
    [name |-> name, type |-> type, data |-> ArchiveData, fail |-> fail,
     read |-> read]
ArchiveEntries ==
    { ArchiveEntry(<<"x">>, "file", "", 0),
      ArchiveEntry(<<"x">>, "file", "header", 0),
      ArchiveEntry(<<"x">>, "link", "", 0),
      ArchiveEntry(<<"sub">>, "dir", "", 0),
      ArchiveEntry(<<"sub">>, "dir", "header", 0),
      ArchiveEntry(<<"sub", "y">>, "file", "", 0),
      ArchiveEntry(<<"..", "x">>, "file", "", 0) }
    \cup { ArchiveEntry(<<"x">>, "file", "copy", n) :
             n \in 0..Len(ArchiveData) }

\* filepath.Dir of a clean relative path
FilepathDir(path) == IF Len(path) <= 1 THEN <<".">> ELSE Parent(path)

(* The loop over the entries from entry i on: a directory is created; a
   file's directory is created, the file is created or truncated and the
   entry's bytes are copied to it; an error ends the extraction and no
   list is returned, what was written before it stays.  A tar entry
   that is neither is passed over, a zip entry that is no directory is
   written as a file.  A tar stream is read as the loop goes: an
   unreadable header ends the extraction before anything is made of the
   entry, and so does a stream that does not end after the last entry
   (tail); a zip entry's header is read by f.Open, after the file has
   been created. *)
RECURSIVE ExtractFrom(_, _, _, _, _, _, _)
ExtractFrom(f, format, to, entries, tail, i, files) ==
    IF i > Len(entries)
    THEN IF format = "tar" /\ tail
         THEN [fs |-> f, files |-> <<>>, err |-> "read"]
         ELSE [fs |-> f, files |-> files, err |-> ""]
    ELSE LET e == entries[i]
             fpath == JoinPath(to, e.name)
         IN IF format = "tar" /\ e.fail = "header"
            THEN [fs |-> f, files |-> <<>>, err |-> "read"]
            ELSE IF e.type = "dir"
            THEN ExtractFrom(MkdirAll(f, fpath), format, to, entries, tail,
                             i + 1, files)
            ELSE IF e.type = "link" /\ format = "tar"
            THEN ExtractFrom(f, format, to, entries, tail, i + 1, files)
            ELSE LET f1 == MkdirAll(f, FilepathDir(fpath))
                 IN IF ~CanOpen(f1, fpath)
                    THEN [fs |-> f1, files |-> <<>>, err |-> "open"]
                    ELSE IF e.fail = "header"
                    THEN [fs |-> [f1 EXCEPT ![fpath] = FileOf(<<>>)],
                          files |-> <<>>, err |-> "read"]
                    ELSE IF e.fail = "copy"
                    THEN [fs |-> [f1 EXCEPT ![fpath] =
                                     FileOf(SubSeq(e.data, 1, e.read))],
                          files |-> <<>>, err |-> "read"]
                    ELSE ExtractFrom([f1 EXCEPT ![fpath] = FileOf(e.data)],
                                     format, to, entries, tail, i + 1,
                                     Append(files, fpath))

\* ExtractAll(archivePath, to) on a file system f, the archive holding the
\* entries given; corrupt: it cannot be opened as an archive ("open"), or
\* its stream breaks after the last entry ("tail").
ExtractAll(f, archivePath, to, entries, corrupt) ==
    LET dst == IF to = NoPath THEN FilepathDir(archivePath) ELSE to
    IN IF ArchiveFormat(archivePath) = ""
       THEN [fs |-> f, files |-> <<>>, err |-> "unsupported archive format"]
       ELSE IF ~fileExists(f, archivePath) \/ corrupt = "open"
       THEN [fs |-> f, files |-> <<>>, err |-> "open archive"]
       ELSE ExtractFrom(f, ArchiveFormat(archivePath), dst, entries,
                        corrupt = "tail", 1, <<>>)

ExCall(archivePath, to, entries, corrupt) ==
    [pc |-> "call", archivePath |-> archivePath, to |-> to,
     entries |-> entries, corrupt |-> corrupt, files |-> <<>>, err |-> ""]

ExtractAllCall ==
    /\ ex.pc = "call"
    /\ LET r == ExtractAll(fs, ex.archivePath, ex.to, ex.entries, ex.corrupt)
       IN /\ fs' = r.fs
          /\ ex' = [ex EXCEPT !.pc = "done", !.files = r.files,
                              !.err = r.err]
    /\ UNCHANGED <<net, tw, df, fs0, dl, cd, pu, tr>>

\* The directories extracted to, and the paths an extraction may touch.
ExtractDirs == {CacheRoot, <<"to">>}
ExtractPaths ==
    LET all == ArchivePaths \cup ExtractDirs \cup {<<".">>}
               \cup { JoinPath(d, e.name) : d \in ExtractDirs,
                                            e \in ArchiveEntries }
    IN UNION { {SubSeq(q, 1, k) : k \in 1..Len(q)} : q \in all }

(* Before the call: the archive is in the cache directory (or missing), and
   the destination is empty, or holds a file named sub or a directory
   named x. *)
ExtractFs(archivePath, dst, present, obstacle) ==
    [path \in AllPaths \cup ExtractPaths |->
        IF path = archivePath
        THEN (IF present THEN FileOf(Content) ELSE NoFile)
        ELSE IF IsDots(path) THEN DirEntry
        ELSE IF path \in AllPaths THEN BaseFs(NoFile, NoFile)[path]
        ELSE IF obstacle = "subfile" /\ path = Join(dst, "sub")
        THEN FileOf(Stale)
        ELSE IF obstacle = "xdir" /\ path = Join(dst, "x") THEN DirEntry
        ELSE IF obstacle # "none" /\ path = dst THEN DirEntry
        ELSE NoFile]

InitExtract ==
    /\ \E archivePath \in ArchivePaths, to \in {NoPath, <<"to">>},
          entries \in SeqsUpTo(ArchiveEntries, MaxEntries),
          corrupt \in {"", "open", "tail"}, present \in BOOLEAN,
          obstacle \in {"none", "subfile", "xdir"} :
          /\ corrupt = "tail" => ArchiveFormat(archivePath) = "tar"
          /\ ex = ExCall(archivePath, to, entries, corrupt)
          /\ fs = ExtractFs(archivePath,
                            IF to = NoPath THEN CacheRoot ELSE to,
                            present, obstacle)
    /\ fs0 = fs
    /\ dl = [p \in Procs |-> DlIdle]
    /\ cd = [p \in Procs |-> CdIdle]
    /\ pu = PuIdle
    /\ tr = TrIdle
    /\ tw = TwIdle
    /\ df = DfIdle
    /\ net = AnyServer

NextExtract == ExtractAllCall

SpecExtract == InitExtract /\ [][NextExtract]_vars

=============================================================================
